---- MODULE Spec2Model ----
\* A model of cerebuswrapper's CbSdkConnection (src/cerebuswrapper/cbsdkConnection.py):
\* one connection handle, the stored session configuration, the spike cache, and the
\* calls each operation makes on the cbpy device binding.
EXTENDS Integers, Sequences, FiniteSets, TLC

VARIABLES
    alive,          \* the handle object exists (FALSE once it has been torn down)
    is_connected,   \* self.is_connected
    cfg,            \* self._cbsdk_config: a map from key to value
    spike_cache,    \* self.spike_cache: channel -> waveform cursor object
    created,        \* per channel, how many cbpy.SpikeCache objects were constructed
    transport,      \* the binding's side: "open" or "closed"
    trialCfg,       \* the binding's side: <<>> or <<arguments of the latest trial_config>>
    lastOp          \* the operation that ran last: its input, its calls and its outcome

vars == <<alive, is_connected, cfg, spike_cache, created, transport, trialCfg, lastOp>>

\* ---------------------------------------------------------------- bounds

MaxCode == 2        \* binding result codes range over -MaxCode..MaxCode
MaxChan == 2        \* channel / group indices range over 1..MaxChan
MaxComments == 2    \* a comment list holds at most MaxComments comments

\* The cbpy binding is outside the repository. It is modelled by what the wrapper's
\* code relies on: every call answers with a result code (any of Codes), and cbpy.open
\* alone may instead raise RuntimeError with the text "<code>, <text>" that line 55
\* parses. No other binding call is modelled as raising.
Codes == (0 - MaxCode)..MaxCode
OpenResults == 0..MaxCode           \* what cbpy.open returns without raising
FailureCodes == (0 - MaxCode)..(0 - 1)  \* what cbpy.open reports by raising RuntimeError
Channels == 1..MaxChan
CommentTexts == <<"a", "b">>

\* ---------------------------------------------------------------- maps (Python dicts)

EmptyMap == [k \in {} |-> 0]

\* {**a, **b}: the keys of both, b's value where both have the key.
DictMerge(a, b) ==
    [k \in (DOMAIN a) \cup (DOMAIN b) |-> IF k \in DOMAIN b THEN b[k] ELSE a[k]]

\* a keyword argument of _do_cbsdk_config: the stored value, or the parameter's default.
KwArg(c, k, default) == IF k \in DOMAIN c THEN c[k] ELSE default

\* ---------------------------------------------------------------- failure messages

DigitChars == <<"0", "1", "2", "3", "4", "5", "6", "7", "8", "9">>

RECURSIVE FormatNat(_)
FormatNat(n) ==
    IF n < 10 THEN <<DigitChars[n + 1]>>
    ELSE FormatNat(n \div 10) \o <<DigitChars[(n % 10) + 1]>>

\* "%d" % n
FormatInt(n) == IF n < 0 THEN <<"-">> \o FormatNat(0 - n) ELSE FormatNat(n)

\* the text of the RuntimeError the binding raises for a failure code: "<code>, <text>"
FailureMessage(code) == FormatInt(code) \o <<",", " ", "e", "r", "r">>

\* str(e).split(",")[0]
RECURSIVE SplitFirst(_)
SplitFirst(s) ==
    IF s = <<>> \/ Head(s) = "," THEN <<>>
    ELSE <<Head(s)>> \o SplitFirst(Tail(s))

DigitValue(ch) == (CHOOSE i \in 1..10 : DigitChars[i] = ch) - 1
IsDigit(ch) == \E i \in 1..10 : DigitChars[i] = ch

RECURSIVE ParseNat(_, _)
ParseNat(s, acc) ==
    IF s = <<>> THEN acc ELSE ParseNat(Tail(s), acc * 10 + DigitValue(Head(s)))

\* int(text) accepts an optional sign followed by digits
IsIntText(s) ==
    LET body == IF s # <<>> /\ Head(s) \in {"-", "+"} THEN Tail(s) ELSE s
    IN  body # <<>> /\ \A i \in 1..Len(body) : IsDigit(body[i])

ParseInt(s) ==
    IF Head(s) = "-" THEN 0 - ParseNat(Tail(s), 0)
    ELSE IF Head(s) = "+" THEN ParseNat(Tail(s), 0)
    ELSE ParseNat(s, 0)

\* ---------------------------------------------------------------- values

None == [kind |-> "None", val |-> 0]
False == [kind |-> "False", val |-> 0]
IntVal(n) == [kind |-> "int", val |-> n]
Data == [kind |-> "data", val |-> 0]       \* an opaque payload the binding handed back
DataT0 == [kind |-> "data_t0", val |-> 0]  \* the pair (data, t_0)
Self == [kind |-> "self", val |-> 0]      \* __enter__ returns the handle
Raised == [kind |-> "raised", val |-> 0]   \* no value: an exception left the call

Call(fn, args) == [fn |-> fn, args |-> args]

Outcome(op, arg, ret, exc, log, calls, env) ==
    [op |-> op, arg |-> arg, ret |-> ret, exc |-> exc, log |-> log,
     calls |-> calls, env |-> env]

NoEnv == [raised |-> FALSE, code |-> 0]

\* ---------------------------------------------------------------- construction

\* self._cbsdk_config as __init__ leaves it (instance = 0)
InitialConfig ==
    ("instance" :> 0) @@
    ("buffer_parameter" :> ("absolute" :> TRUE)) @@
    ("range_parameter" :> EmptyMap) @@
    ("get_events" :> TRUE) @@
    ("get_continuous" :> TRUE)

Init ==
    /\ alive = TRUE
    /\ is_connected = FALSE
    /\ cfg = InitialConfig
    /\ spike_cache = EmptyMap
    /\ created = [c \in Channels |-> 0]
    /\ transport = "closed"
    /\ trialCfg = <<>>
    /\ lastOp = Outcome("__init__", 0, None, "none", "none", <<>>, NoEnv)

\* ---------------------------------------------------------------- cbsdk_config

\* a translation that forgets the negation
SuppressNotNegated(flag) == IF flag THEN 1 ELSE 0

\* noevent = int(not get_events), and so on
Suppress(flag) == IF flag THEN 0 ELSE 1

\* the arguments _do_cbsdk_config(**c) hands to cbpy.trial_config
TrialConfigArgs(c) ==
    [instance |-> KwArg(c, "instance", 0),
     reset |-> KwArg(c, "reset", TRUE),
     buffer_parameter |-> KwArg(c, "buffer_parameter", EmptyMap),
     range_parameter |-> KwArg(c, "range_parameter", EmptyMap),
     noevent |-> Suppress(KwArg(c, "get_events", FALSE)),
     nocontinuous |-> Suppress(KwArg(c, "get_continuous", FALSE)),
     nocomment |-> Suppress(KwArg(c, "get_comments", FALSE))]

\* the calls _do_cbsdk_config makes: one trial_config when connected, none otherwise
DoCbsdkConfigCalls(connected, c) ==
    IF connected THEN <<Call("trial_config", TrialConfigArgs(c))>> ELSE <<>>

\* a setter that takes the partial's nested map as it is
MergeNestedReplacing(stored, indict, key) == indict

\* lines 78-81: a nested map of the partial is merged over the stored one
MergeNested(stored, indict, key) ==
    IF key \in DOMAIN indict
    THEN (key :> DictMerge(stored[key], indict[key])) @@ indict
    ELSE indict

\* lines 78-83: the configuration stored after a mapping partial
StoredAfter(stored, indict) ==
    LET withBuffer == MergeNested(stored, indict, "buffer_parameter")
        withRange == MergeNested(stored, withBuffer, "range_parameter")
    IN  DictMerge(stored, withRange)

\* what an assignment to cbsdk_config does (lines 69-84), by the kind of value given:
\*   "dict"   a dict;  "pairs" a sequence of (key, value) pairs, which dict() converts;
\*   "int", "none"  dict() raises TypeError (logged), then `in` raises TypeError (line 78);
\*   "list"   a list of scalars: dict() raises TypeError (logged), both `in` tests are
\*            false, and ** raises TypeError (line 83) before anything is stored;
\*   "str"    a non-empty string: dict() raises ValueError (line 73), which is not caught.
SetterResult(connected, stored, v) ==
    IF v.kind \in {"dict", "pairs"}
    THEN LET new == StoredAfter(stored, v.map)
         IN  [cfg |-> new, exc |-> "none", log |-> "none",
              calls |-> DoCbsdkConfigCalls(connected, new)]
    ELSE IF v.kind = "str"
    THEN [cfg |-> stored, exc |-> "ValueError", log |-> "none", calls |-> <<>>]
    ELSE [cfg |-> stored, exc |-> "TypeError", log |-> "error", calls |-> <<>>]

\* the binding's latest trial configuration after the calls of one operation
TrialCfgAfter(old, calls) ==
    LET idx == {i \in 1..Len(calls) : calls[i].fn = "trial_config"}
    IN  IF idx = {} THEN old
        ELSE <<calls[CHOOSE i \in idx : \A j \in idx : j <= i].args>>

Dict(m) == [kind |-> "dict", map |-> m]

\* the values assigned to cbsdk_config between polls
PollConfigValues ==
    << Dict(("get_events" :> FALSE) @@ ("get_comments" :> TRUE) @@ ("instance" :> 1)),
       Dict("get_continuous" :> FALSE),
       [kind |-> "int", map |-> EmptyMap] >>

\* the values assigned to cbsdk_config when the configuration is explored in full
ConfigValues ==
    << Dict("buffer_parameter" :> ("double" :> TRUE)),
       Dict("buffer_parameter" :> ("absolute" :> FALSE)),
       Dict("range_parameter" :> ("begin_channel" :> MaxChan)),
       Dict(("get_events" :> FALSE) @@ ("get_comments" :> TRUE)),
       [kind |-> "pairs",
        map |-> ("range_parameter" :> ("end_channel" :> 1)) @@ ("reset" :> FALSE)
                @@ ("instance" :> 1)],
       [kind |-> "int", map |-> EmptyMap],
       [kind |-> "none", map |-> EmptyMap],
       [kind |-> "list", map |-> EmptyMap],
       [kind |-> "str", map |-> EmptyMap] >>

\* cbsdk_config = v
setConfig(v) ==
    LET r == SetterResult(is_connected, cfg, v)
    IN  /\ alive
        /\ cfg' = r.cfg
        /\ trialCfg' = TrialCfgAfter(trialCfg, r.calls)
        /\ lastOp' = Outcome("setConfig", v,
                             IF r.exc = "none" THEN None ELSE Raised,
                             r.exc, r.log, r.calls, NoEnv)
        /\ UNCHANGED <<alive, is_connected, spike_cache, created, transport>>

\* ---------------------------------------------------------------- connect / disconnect

\* a test that forgets "already open"
IsOpenOkFreshOnly(result) == result = 0

\* line 49
IsOpenOk(result) == result = 0 \/ result = 1

\* lines 51-53: the partial connect() assigns after cbpy.open returned
ConnectPartial == Dict("buffer_parameter" :> ("absolute" :> TRUE))

OpenCall == Call("open", [instance |-> 0, connection |-> "default"])

\* connect() when cbpy.open returns result (lines 48-53, 58)
ConnectReturned(op, arg, result) ==
    LET r == SetterResult(IsOpenOk(result), cfg, ConnectPartial)
        calls == <<OpenCall>> \o r.calls
    IN  /\ is_connected' = IsOpenOk(result)
        /\ cfg' = r.cfg
        /\ trialCfg' = TrialCfgAfter(trialCfg, calls)
        /\ transport' = IF IsOpenOk(result) THEN "open" ELSE transport
        /\ lastOp' = Outcome(op, arg, IF op = "__enter__" THEN Self ELSE IntVal(result),
                             "none", "info", calls, [raised |-> FALSE, code |-> result])

\* connect() when cbpy.open raises RuntimeError(FailureMessage(code)) (lines 54-58)
ConnectRaised(op, arg, code) ==
    LET text == SplitFirst(FailureMessage(code))
    IN  /\ cfg' = cfg
        /\ trialCfg' = trialCfg
        /\ transport' = transport
        /\ IF IsIntText(text)
           THEN /\ is_connected' = FALSE
                /\ lastOp' = Outcome(op, arg,
                                     IF op = "__enter__" THEN Self
                                     ELSE IntVal(ParseInt(text)),
                                     "none", "error",
                                     <<OpenCall>>, [raised |-> TRUE, code |-> code])
           ELSE /\ is_connected' = is_connected
                /\ lastOp' = Outcome(op, arg, Raised, "ValueError", "none",
                                     <<OpenCall>>, [raised |-> TRUE, code |-> code])

DoConnect(op, arg) ==
    /\ alive
    /\ \/ \E result \in OpenResults : ConnectReturned(op, arg, result)
       \/ \E code \in FailureCodes : ConnectRaised(op, arg, code)
    /\ UNCHANGED <<alive, spike_cache, created>>

connect == DoConnect("connect", 0)

\* lines 60-63
DoDisconnect(op, arg) ==
    /\ alive
    /\ is_connected' = FALSE
    /\ transport' = "closed"
    /\ lastOp' = Outcome(op, arg, None, "none", "none", <<Call("close", 0)>>, NoEnv)
    /\ UNCHANGED <<alive, cfg, spike_cache, created, trialCfg>>

disconnect == DoDisconnect("disconnect", 0)

\* `with handle:` entry (lines 36-39) and exit (lines 41-43); excType is the
\* exception the body left with, "none" when it ended normally
enter == DoConnect("__enter__", 0)

exit(excType) == DoDisconnect("__exit__", excType)

\* the handle is torn down: the class defines no finalizer, so no code runs
teardown ==
    /\ alive
    /\ alive' = FALSE
    /\ lastOp' = Outcome("teardown", 0, None, "none", "none", <<>>, NoEnv)
    /\ UNCHANGED <<is_connected, cfg, spike_cache, created, transport, trialCfg>>

\* ---------------------------------------------------------------- getters

handle == <<alive, is_connected, cfg, spike_cache, created, transport, trialCfg>>

\* `if result == 0: return data / else: logger.error(...)` then `return None`
ReadOutcome(op, arg, call, result, data) ==
    Outcome(op, arg, IF result = 0 THEN data ELSE None, "none",
            IF result = 0 THEN "none" ELSE "error", <<call>>, NoEnv)

\* the guard was false: `return None` with no call made
Skipped(op, arg) == Outcome(op, arg, None, "none", "none", <<>>, NoEnv)

\* a read that does not look at its guard
GuardedReadUnguarded(op, arg, guard, call, withT0) ==
    \E result \in Codes :
        lastOp' = ReadOutcome(op, arg, call, result, IF withT0 THEN DataT0 ELSE Data)

\* one guarded read of the binding: the binding answers any result code, and a
\* payload with result code 0
GuardedRead(op, arg, guard, call, withT0) ==
    IF guard
    THEN \E result \in Codes :
            lastOp' = ReadOutcome(op, arg, call, result, IF withT0 THEN DataT0 ELSE Data)
    ELSE lastOp' = Skipped(op, arg)

\* lines 124-133
get_event_data ==
    /\ alive
    /\ GuardedRead("get_event_data", 0, cfg["get_events"] /\ is_connected,
                   Call("trial_event", [instance |-> cfg["instance"], reset |-> TRUE]),
                   FALSE)
    /\ UNCHANGED handle

\* lines 135-145
get_continuous_data(return_timestamp) ==
    /\ alive
    /\ GuardedRead("get_continuous_data", return_timestamp,
                   is_connected /\ cfg["get_continuous"],
                   Call("trial_continuous", [instance |-> cfg["instance"], reset |-> TRUE]),
                   return_timestamp)
    /\ UNCHANGED handle

\* lines 147-155: cbsdk_config['get_comments'] is read only when connected, and
\* raises KeyError when the key was never stored
get_comments ==
    /\ alive
    /\ IF is_connected /\ "get_comments" \notin DOMAIN cfg
       THEN lastOp' = Outcome("get_comments", 0, Raised, "KeyError", "none", <<>>, NoEnv)
       ELSE GuardedRead("get_comments", 0, is_connected /\ cfg["get_comments"],
                        Call("trial_comment", [instance |-> cfg["instance"], reset |-> TRUE,
                                               wait_for_comment_msec |-> 0]),
                        FALSE)
    /\ UNCHANGED handle

\* lines 163-170
get_group_config(group_ix) ==
    /\ alive
    /\ GuardedRead("get_group_config", group_ix, is_connected,
                   Call("get_sample_group", [ix |-> group_ix, instance |-> cfg["instance"]]),
                   FALSE)
    /\ UNCHANGED handle

\* lines 172-179
get_channel_info(chan_id) ==
    /\ alive
    /\ GuardedRead("get_channel_info", chan_id, is_connected,
                   Call("get_channel_config", [ix |-> chan_id, instance |-> cfg["instance"]]),
                   FALSE)
    /\ UNCHANGED handle

\* lines 185-190: the result code of cbpy.time is dropped, the time is returned
time ==
    /\ alive
    /\ IF is_connected
       THEN \E res \in Codes :
               lastOp' = Outcome("time", 0, Data, "none", "none",
                                 <<Call("time", [instance |-> 0])>>, NoEnv)
       ELSE lastOp' = Skipped("time", 0)
    /\ UNCHANGED handle

\* lines 207-210
get_sys_config ==
    /\ alive
    /\ IF is_connected
       THEN lastOp' = Outcome("get_sys_config", 0, Data, "none", "none",
                              <<Call("get_sys_config", [instance |-> cfg["instance"]])>>,
                              NoEnv)
       ELSE lastOp' = Skipped("get_sys_config", 0)
    /\ UNCHANGED handle

\* lines 223-229: info[1]['Recording'] when connected, False otherwise
get_recording_state ==
    /\ alive
    /\ IF is_connected
       THEN \E recording \in {"False", "True"} :
               lastOp' = Outcome("get_recording_state", 0, [kind |-> recording, val |-> 0],
                                 "none", "none",
                                 <<Call("file_config", "command" :> "info")>>, NoEnv)
       ELSE lastOp' = Outcome("get_recording_state", 0, False, "none", "none", <<>>, NoEnv)
    /\ UNCHANGED handle

\* ---------------------------------------------------------------- waveforms

\* a lookup that never finds the cached cursor
NeedsCursorAlways(cache, chan_ix) == TRUE

\* line 203
NeedsCursor(cache, chan_ix) == chan_ix \notin DOMAIN cache

\* lines 201-205: a cursor object is named by its channel and its construction number
get_waveforms(chan_ix) ==
    /\ alive
    /\ IF is_connected
       THEN LET make == NeedsCursor(spike_cache, chan_ix)
                cursor == IF make THEN <<chan_ix, created[chan_ix] + 1>>
                          ELSE spike_cache[chan_ix]
            IN  /\ spike_cache' = IF make THEN (chan_ix :> cursor) @@ spike_cache
                                  ELSE spike_cache
                /\ created' = IF make THEN [created EXCEPT ![chan_ix] = @ + 1]
                              ELSE created
                /\ lastOp' = Outcome("get_waveforms", chan_ix, Data, "none", "none",
                            (IF make
                             THEN <<Call("SpikeCache", [channel |-> chan_ix,
                                                        instance |-> cfg["instance"]])>>
                             ELSE <<>>)
                            \o <<Call("get_new_waveforms", cursor)>>, NoEnv)
       ELSE /\ lastOp' = Skipped("get_waveforms", chan_ix)
            /\ UNCHANGED <<spike_cache, created>>
    /\ UNCHANGED <<alive, is_connected, cfg, transport, trialCfg>>

\* ---------------------------------------------------------------- recording

RecordingNotReady == -1

\* a command that only fills in a missing 'command' key
WithCommandKeepingCallers(file_info, on_off) ==
    DictMerge("command" :> (IF on_off THEN "start" ELSE "stop"), file_info)

\* line 242: file_info['command'] = 'start' if on_off else 'stop'
WithCommand(file_info, on_off) ==
    DictMerge(file_info, "command" :> (IF on_off THEN "start" ELSE "stop"))

\* line 233
CanRecord(connected, file_info) == connected /\ "filename" \in DOMAIN file_info

\* the calls of set_recording_state (lines 237-244)
RecordingCalls(file_info, on_off) ==
    << Call("file_config", "command" :> "open"),
       Call("file_config", WithCommand(file_info, on_off)) >>

FileInfos ==
    << EmptyMap,
       "filename" :> "x",
       ("filename" :> "x") @@ ("command" :> "stop") @@ ("comment" :> "c"),
       ("filename" :> "x") @@ ("command" :> "info"),
       "command" :> "start" >>

\* lines 231-247
set_recording_state(on_off, file_info) ==
    /\ alive
    /\ IF CanRecord(is_connected, file_info)
       THEN \E out \in Codes :
               lastOp' = Outcome("set_recording_state", <<on_off, file_info>>, IntVal(out),
                                 "none", "none", RecordingCalls(file_info, on_off),
                                 [raised |-> FALSE, code |-> out])
       ELSE lastOp' = Outcome("set_recording_state", <<on_off, file_info>>,
                              IntVal(RecordingNotReady), "none", "none", <<>>, NoEnv)
    /\ UNCHANGED handle

\* ---------------------------------------------------------------- comments

\* a normalisation that wraps nothing
AsCommentListUnwrapped(comment_list) == comment_list.items

\* lines 158-159: anything but a list or a tuple becomes a one-element list
AsCommentList(comment_list) ==
    IF comment_list.kind \in {"list", "tuple"} THEN comment_list.items
    ELSE <<comment_list.val>>

\* lines 160-161
CommentCalls(comments, rgba_tuple, instance) ==
    [i \in 1..Len(comments) |->
        Call("set_comment", [comment |-> comments[i], rgba_tuple |-> rgba_tuple,
                             instance |-> instance])]

CommentSeqs ==
    UNION {[1..n -> {CommentTexts[i] : i \in 1..Len(CommentTexts)}] : n \in 0..MaxComments}

CommentInputs ==
    {[kind |-> "str", val |-> CommentTexts[i], items |-> <<>>] : i \in 1..Len(CommentTexts)}
    \cup {[kind |-> "list", val |-> "", items |-> q] : q \in CommentSeqs}
    \cup {[kind |-> "tuple", val |-> "", items |-> q] : q \in CommentSeqs}

DefaultRgba == <<0, 0, 0, 64>>
Red == <<255, 0, 0, 255>>

\* the calls made: every comment input with the default colour, the strings and the
\* longest sequences with another colour as well
CommentArgs ==
    {<<c, DefaultRgba>> : c \in CommentInputs}
    \cup {<<c, Red>> : c \in {x \in CommentInputs :
                                 x.kind = "str" \/ Len(x.items) = MaxComments}}

\* lines 157-161: no connection guard
set_comments(comment_list, rgba_tuple) ==
    /\ alive
    /\ lastOp' = Outcome("set_comments", <<comment_list, rgba_tuple>>, None, "none", "none",
                         CommentCalls(AsCommentList(comment_list), rgba_tuple,
                                      cfg["instance"]), NoEnv)
    /\ UNCHANGED handle

\* ---------------------------------------------------------------- specification

Lifecycle ==
    \/ connect
    \/ disconnect
    \/ enter
    \/ \E e \in {"none", "Exception"} : exit(e)
    \/ teardown

\* every operation of the handle, with a few configuration values
Next ==
    \/ Lifecycle
    \/ \E i \in 1..Len(PollConfigValues) : setConfig(PollConfigValues[i])
    \/ get_event_data
    \/ \E ts \in BOOLEAN : get_continuous_data(ts)
    \/ get_comments
    \/ \E ix \in Channels : get_group_config(ix)
    \/ \E ix \in Channels : get_channel_info(ix)
    \/ time
    \/ get_sys_config
    \/ get_recording_state
    \/ \E ix \in Channels : get_waveforms(ix)
    \/ \E on \in BOOLEAN : \E i \in 1..Len(FileInfos) : set_recording_state(on, FileInfos[i])
    \/ \E a \in CommentArgs : set_comments(a[1], a[2])

Spec == Init /\ [][Next]_vars

\* the connection and configuration operations, with every configuration value
NextConfig ==
    \/ Lifecycle
    \/ \E i \in 1..Len(ConfigValues) : setConfig(ConfigValues[i])

SpecConfig == Init /\ [][NextConfig]_vars

\* ---------------------------------------------------------------- properties

IsMappingLike(v) == v.kind \in {"dict", "pairs"}

\* the mapping partial the operation recorded in o assigned to cbsdk_config, as a
\* sequence of at most one map: the value of a setConfig, or connect()'s own partial
\* when cbpy.open returned
AssignedPartial(o) ==
    IF o.op = "setConfig"
    THEN (IF IsMappingLike(o.arg) THEN <<o.arg.map>> ELSE <<>>)
    ELSE IF o.op \in {"connect", "__enter__"} /\ ~o.env.raised /\ o.exc = "none"
    THEN <<"buffer_parameter" :> ("absolute" :> TRUE)>>
    ELSE <<>>

\* over one step, the nested map `key` becomes the shallow merge of its old value with
\* the partial's nested map (the partial's values win), and is untouched otherwise
NestedMerged(key) ==
    LET ps == AssignedPartial(lastOp')
    IN  IF ps # <<>> /\ key \in DOMAIN ps[1]
        THEN /\ DOMAIN cfg'[key] = (DOMAIN cfg[key]) \cup (DOMAIN ps[1][key])
             /\ \A k \in DOMAIN cfg'[key] :
                    cfg'[key][k] = IF k \in DOMAIN ps[1][key] THEN ps[1][key][k]
                                   ELSE cfg[key][k]
        ELSE cfg'[key] = cfg[key]

\* C1: every assignment of a mapping partial to cbsdk_config leaves buffer_parameter and
\* range_parameter equal to the shallow merge of their previous value with the partial's
\* nested map (new keys win); a partial without one of the two leaves that one
\* unchanged, and no nested key is ever removed.
C1_NestedMapsMerged ==
    [][ /\ NestedMerged("buffer_parameter")
        /\ NestedMerged("range_parameter")
        /\ (DOMAIN cfg["buffer_parameter"]) \subseteq (DOMAIN cfg'["buffer_parameter"])
        /\ (DOMAIN cfg["range_parameter"]) \subseteq (DOMAIN cfg'["range_parameter"]) ]_vars

\* a range-only partial was applied on top of two buffer keys set by earlier partials
C1_Witness ==
    /\ lastOp.op = "setConfig"
    /\ IsMappingLike(lastOp.arg)
    /\ DOMAIN lastOp.arg.map = {"range_parameter"}
    /\ cfg["buffer_parameter"] = ("absolute" :> FALSE) @@ ("double" :> TRUE)
    /\ DOMAIN cfg["range_parameter"] = {"begin_channel", "end_channel"}

GetterNames ==
    {"get_event_data", "get_continuous_data", "get_comments", "get_group_config",
     "get_channel_info", "time", "get_waveforms", "get_sys_config", "get_recording_state"}

\* C2 as stated: while Disconnected every getter returns absence and makes no call on
\* the binding.
C2_AllGettersAbsent ==
    (lastOp.op \in GetterNames /\ ~is_connected)
        => (lastOp.ret = None /\ lastOp.calls = <<>>)

\* C2, amended: while Disconnected every getter makes no call on the binding and
\* returns absence, except get_recording_state, which returns False.
C2_DisconnectedGetters ==
    (lastOp.op \in GetterNames /\ ~is_connected)
        => /\ lastOp.calls = <<>>
           /\ lastOp.exc = "none"
           /\ lastOp.ret = IF lastOp.op = "get_recording_state" THEN False ELSE None

\* a getter polled after the handle had been connected and was disconnected again
C2_Witness ==
    /\ lastOp.op = "get_waveforms"
    /\ ~is_connected
    /\ DOMAIN spike_cache # {}
    /\ lastOp.ret = None

\* C3: connect() leaves the handle Connected exactly when cbpy.open returned 0 or 1,
\* Disconnected for any other result code and for a failure raised by the binding, and
\* returns the result code (the one in the failure message when the binding raised).
C3_ConnectOutcome ==
    lastOp.op = "connect"
        => /\ lastOp.exc = "none"
           /\ lastOp.ret = IntVal(lastOp.env.code)
           /\ is_connected <=> (~lastOp.env.raised /\ lastOp.env.code \in {0, 1})

\* connect() on a handle whose transport was open met a failure raised by the binding
C3_Witness ==
    /\ lastOp.op = "connect"
    /\ lastOp.env.raised
    /\ transport = "open"
    /\ ~is_connected
    /\ lastOp.ret.val < 0

\* C4: connect() and the getters never let an error reach the caller.
C4_NothingPropagates ==
    lastOp.op \in {"connect", "get_event_data", "get_continuous_data", "get_comments",
                   "get_group_config", "get_channel_info"}
        => lastOp.exc = "none"

\* C5: assigning a value that is not mapping-like to cbsdk_config is logged, raises
\* nothing, stores nothing and makes no trial-configuration call.
C5_InvalidValueDropped ==
    [][ (lastOp'.op = "setConfig" /\ ~IsMappingLike(lastOp'.arg))
            => /\ lastOp'.exc = "none"
               /\ lastOp'.log = "error"
               /\ lastOp'.calls = <<>>
               /\ cfg' = cfg
               /\ trialCfg' = trialCfg ]_vars

\* C6: leaving a `with` block closes the transport and ends Disconnected, whatever way
\* the body ended, and tearing down a Connected handle closes the transport.
C6_AlwaysReleased ==
    /\ lastOp.op = "__exit__" => (transport = "closed" /\ ~is_connected)
    /\ lastOp.op = "teardown" => transport = "closed"

\* C7: on a Connected handle with a filename, set_recording_state makes exactly two
\* file_config requests, "open" and then the caller's file_info with command forced to
\* "start" or "stop", and returns the answer to the second; otherwise it returns -1 and
\* makes no call.
C7_RecordingRequests ==
    lastOp.op = "set_recording_state"
        => LET on == lastOp.arg[1]
               info == lastOp.arg[2]
               calls == lastOp.calls
           IN  IF is_connected /\ "filename" \in DOMAIN info
               THEN /\ Len(calls) = 2
                    /\ calls[1] = [fn |-> "file_config", args |-> ("command" :> "open")]
                    /\ calls[2].fn = "file_config"
                    /\ DOMAIN calls[2].args = (DOMAIN info) \cup {"command"}
                    /\ calls[2].args["command"] = (IF on THEN "start" ELSE "stop")
                    /\ \A k \in (DOMAIN info) \ {"command"} : calls[2].args[k] = info[k]
                    /\ lastOp.ret = IntVal(lastOp.env.code)
               ELSE /\ calls = <<>>
                    /\ lastOp.ret = IntVal(-1)

\* recording was switched on with a file_info that asked for "stop"
C7_Witness ==
    /\ lastOp.op = "set_recording_state"
    /\ is_connected
    /\ lastOp.arg[1]
    /\ "command" \in DOMAIN lastOp.arg[2]
    /\ lastOp.arg[2]["command"] = "stop"
    /\ Len(lastOp.calls) = 2
    /\ lastOp.ret.val # -1

\* C8: a waveform cursor is constructed at most once per channel, every
\* get_waveforms on a Connected handle polls the cursor cached for its channel (the
\* first one constructed), and no step removes or replaces an entry of the spike cache.
C8_CursorOncePerChannel ==
    /\ [](\A ch \in Channels : created[ch] <= 1)
    /\ []((lastOp.op = "get_waveforms" /\ is_connected)
            => /\ lastOp.arg \in DOMAIN spike_cache
               /\ spike_cache[lastOp.arg] = <<lastOp.arg, 1>>
               /\ lastOp.calls[Len(lastOp.calls)]
                    = [fn |-> "get_new_waveforms", args |-> <<lastOp.arg, 1>>])
    /\ [][\A ch \in DOMAIN spike_cache :
              ch \in DOMAIN spike_cache' /\ spike_cache'[ch] = spike_cache[ch]]_vars

\* a poll that found its cursor in the cache and constructed nothing
C8_Witness ==
    /\ lastOp.op = "get_waveforms"
    /\ is_connected
    /\ Len(lastOp.calls) = 1
    /\ DOMAIN spike_cache = Channels

\* C9: set_comments posts a single value once, and the elements of a list or tuple
\* once each in order, all with the given colour and the configured instance, whether
\* connected or not, and changes nothing in the handle.
C9_CommentsPosted ==
    /\ [](lastOp.op = "set_comments"
            => LET v == lastOp.arg[1]
                   posted == IF v.kind = "str" THEN <<v.val>> ELSE v.items
               IN  /\ Len(lastOp.calls) = Len(posted)
                   /\ \A i \in 1..Len(posted) :
                          lastOp.calls[i] =
                              [fn |-> "set_comment",
                               args |-> [comment |-> posted[i],
                                         rgba_tuple |-> lastOp.arg[2],
                                         instance |-> cfg["instance"]]])
    /\ [][lastOp'.op = "set_comments" => UNCHANGED handle]_vars

\* two different comments of a list were posted in order on a Disconnected handle
C9_Witness ==
    /\ lastOp.op = "set_comments"
    /\ ~is_connected
    /\ lastOp.arg[1].kind = "list"
    /\ Len(lastOp.calls) = 2
    /\ lastOp.calls[1].args.comment = "a"
    /\ lastOp.calls[2].args.comment = "b"

\* the trial configuration that corresponds to a stored configuration
PushedFor(c) ==
    [instance |-> c["instance"],
     reset |-> IF "reset" \in DOMAIN c THEN c["reset"] ELSE TRUE,
     buffer_parameter |-> c["buffer_parameter"],
     range_parameter |-> c["range_parameter"],
     noevent |-> IF c["get_events"] THEN 0 ELSE 1,
     nocontinuous |-> IF c["get_continuous"] THEN 0 ELSE 1,
     nocomment |-> IF "get_comments" \in DOMAIN c /\ c["get_comments"] THEN 0 ELSE 1]

TrialConfigCalls(calls) == SelectSeq(calls, LAMBDA c : c.fn = "trial_config")

\* C10: while Connected the binding's latest trial configuration is the stored one;
\* an assignment made while Disconnected makes no trial-configuration call; and a
\* connect() that ends Connected makes exactly one, carrying the whole stored
\* configuration with buffer_parameter 'absolute' true.
C10_DeviceFollowsStored ==
    /\ is_connected => trialCfg = <<PushedFor(cfg)>>
    /\ (lastOp.op = "setConfig" /\ ~is_connected) => lastOp.calls = <<>>
    /\ (lastOp.op = "connect" /\ is_connected)
          => /\ TrialConfigCalls(lastOp.calls)
                  = <<[fn |-> "trial_config", args |-> PushedFor(cfg)]>>
             /\ cfg["buffer_parameter"]["absolute"] = TRUE

\* a connect() pushed a configuration that earlier assignments had stored
C10_Witness ==
    /\ lastOp.op = "connect"
    /\ is_connected
    /\ "double" \in DOMAIN cfg["buffer_parameter"]
    /\ "get_comments" \in DOMAIN cfg
    /\ "reset" \in DOMAIN cfg
    /\ trialCfg[1].nocomment = 0
    /\ trialCfg[1].noevent = 1
    /\ trialCfg[1].reset = FALSE

====
